---- MODULE Spec2Model ----
(***************************************************************************)
(* The run-orchestration core of the Church Media Automation System:       *)
(* WorkflowController.run_event (src/controller/workflow_controller.py)    *)
(* and the result ledger StateStore (src/controller/state_store.py).       *)
(*                                                                         *)
(* A worker is one caller of run_event.  One call is a sequence of steps:  *)
(* load the event, then for each enabled module _run_module followed by    *)
(* save_module_result, then save_workflow_state, then the return.          *)
(***************************************************************************)
EXTENDS Integers, Sequences, FiniteSets, TLC

\* The wall clock (datetime.now()) is read as a number 0..MaxClock.
MaxClock == 1

\* The callers of run_event.
Workers == {"w1", "w2"}

\* The events the event repository holds, and an identifier it does not hold.
Events == {"evA"}
MissingEvent == "does-not-exist"
EventIds == Events \cup {MissingEvent}

\* The module names _run_module routes to a handler.
RegisteredModules ==
    {"thumbnail_ai", "thumbnail_compose", "subtitles",
     "publish_youtube", "publish_website", "archive"}

\* The module names the modelled event configurations use: a placeholder
\* handler, a handler that can report failure, and a name with no handler.
ModuleNames == {"thumbnail_ai", "subtitles", "custom_step"}

\* Python's None for a result dictionary, and a key a dictionary lacks.
NoKey == -1
None == [status |-> "none", detail |-> <<>>, timestamp |-> NoKey, saved_at |-> NoKey]

\* An empty dict; a dict is a function from its keys.
EmptyDict == [n \in {} |-> None]

dict_set(d, k, v) == [n \in DOMAIN d \cup {k} |-> IF n = k THEN v ELSE d[n]]

VARIABLES
    events,          \* event repository: event id -> event configuration
    event_dir,       \* the event ids whose directory events/<id> exists and
                     \* whose files can be written
    ledger,          \* <module>_result.json: event id -> module -> record
    workflow_state,  \* workflow_state.json: event id -> run record
    clock,           \* datetime.now()
    pc,              \* worker -> position in run_event
    event_id,        \* worker -> argument event_id
    force,           \* worker -> argument force
    event_config,    \* worker -> local event_config
    enabled_modules, \* worker -> local enabled_modules
    idx,             \* worker -> position of the for loop in enabled_modules
    result,          \* worker -> local result
    results,         \* worker -> local results
    how,             \* worker -> the branch of _run_module that made result
    invoked,         \* worker -> the handlers invoked so far in this call
    handler_args,    \* worker -> the arguments of each handler call of this call
    ret,             \* worker -> what the call gave its caller
    agg_results,     \* argument of a direct _compute_overall_status call
    agg_status       \* its return value

vars == <<events, event_dir, ledger, workflow_state, clock, pc, event_id, force,
          event_config, enabled_modules, idx, result, results, how, invoked, handler_args,
          ret, agg_results, agg_status>>

locals == <<event_id, force, event_config, enabled_modules, idx, result,
            results, how, invoked, handler_args, ret>>
store == <<events, event_dir, ledger, workflow_state>>
agg == <<agg_results, agg_status>>

----------------------------------------------------------------------------
\* Event configurations

\* What load_event gives for an id the repository does not hold.
NoConfig == [exists |-> FALSE, has_modules |-> FALSE, modules |-> <<>>]

\* The "modules" maps of the modelled configurations: every insertion order
\* of every subset of ModuleNames, each name with an enabled flag.
ModuleMaps ==
    {s \in UNION {[1..n -> [name : ModuleNames, enabled : BOOLEAN]] :
                      n \in 0..Cardinality(ModuleNames)} :
        \A i, j \in 1..Len(s) : i # j => s[i].name # s[j].name}

Configs ==
    {[exists |-> TRUE, has_modules |-> TRUE, modules |-> s] : s \in ModuleMaps}
    \cup {[exists |-> TRUE, has_modules |-> FALSE, modules |-> <<>>]}

load_event(e) == IF e \in DOMAIN events THEN events[e] ELSE NoConfig

\* event_config.get("modules", {})
modules_config(cfg) == IF cfg.has_modules THEN cfg.modules ELSE <<>>

\* _get_enabled_modules without the "if enabled" filter.
all_module_names(cfg) ==
    [i \in 1..Len(modules_config(cfg)) |-> modules_config(cfg)[i].name]

RECURSIVE enabled_names(_)
enabled_names(s) ==
    IF s = <<>> THEN <<>>
    ELSE IF Head(s).enabled THEN <<Head(s).name>> \o enabled_names(Tail(s))
         ELSE enabled_names(Tail(s))

_get_enabled_modules(cfg) == enabled_names(modules_config(cfg))

----------------------------------------------------------------------------
\* Result ledger (StateStore)

\* get_module_result over a ledger keyed by step name alone: a success that
\* any event has for the step counts for every event.
get_module_result_any_event(e, m) ==
    IF \E x \in DOMAIN ledger : ledger[x][m].status = "success"
    THEN ledger[CHOOSE x \in DOMAIN ledger : ledger[x][m].status = "success"][m]
    ELSE ledger[e][m]

get_module_result(e, m) == ledger[e][m]

\* The content of a record file that open(file, 'w') has truncated and
\* json.dump has not filled again: json.load raises on it.
Torn == [status |-> "torn", detail |-> <<>>, timestamp |-> NoKey, saved_at |-> NoKey]

\* The status list of _compute_overall_status: r.get("status", "unknown").
statuses(rs) == {rs[n].status : n \in DOMAIN rs}

\* _compute_overall_status counting a skipped result as a success.
compute_overall_status_skipped_ok(rs) ==
    IF DOMAIN rs = {} THEN "failed"
    ELSE IF \A s \in statuses(rs) : s \in {"success", "skipped"} THEN "success"
    ELSE IF \E s \in statuses(rs) : s \in {"success", "skipped"} THEN "partial"
    ELSE "failed"

\* _compute_overall_status without "if not results: return 'failed'".
compute_overall_status_no_empty_check(rs) ==
    IF \A s \in statuses(rs) : s = "success" THEN "success"
    ELSE IF \E s \in statuses(rs) : s = "success" THEN "partial"
    ELSE "failed"

_compute_overall_status(rs) ==
    IF DOMAIN rs = {} THEN "failed"
    ELSE IF \A s \in statuses(rs) : s = "success" THEN "success"
    ELSE IF \E s \in statuses(rs) : s = "success" THEN "partial"
    ELSE "failed"

NoState == [event_id |-> "", completed_at |-> NoKey,
            module_results |-> EmptyDict, overall_status |-> "none"]

----------------------------------------------------------------------------
\* Handlers (the _run_<module> methods)

\* The message a handler can raise with, str(e).
Faults == {"handler fault"}

\* handler_returns with a subtitles handler that reports a missing input
\* video as skipped.
handler_returns_skipping(m) ==
    CASE m = "subtitles" ->
            {[status |-> "success", detail |-> <<"Subtitles generated successfully">>],
             [status |-> "skipped", detail |-> <<"error", "No input video found">>]}
      [] m \in RegisteredModules \ {"subtitles"} ->
            {[status |-> "success", detail |-> <<"done">>]}
      [] OTHER -> {}

\* The dictionaries a handler can return, before its timestamp is set.
handler_returns(m) ==
    CASE m = "thumbnail_ai" -> {[status |-> "success", detail |-> <<"AI thumbnail generated">>]}
      [] m = "thumbnail_compose" ->
            {[status |-> "success", detail |-> <<"Thumbnail composed successfully">>],
             [status |-> "failed", detail |-> <<"error", "compose error">>]}
      [] m = "subtitles" ->
            {[status |-> "success", detail |-> <<"Subtitles generated successfully">>],
             [status |-> "failed", detail |-> <<"error", "No input video found">>]}
      [] m = "publish_youtube" -> {[status |-> "success", detail |-> <<"Published to YouTube">>]}
      [] m = "publish_website" -> {[status |-> "success", detail |-> <<"Published to website">>]}
      [] m = "archive" -> {[status |-> "success", detail |-> <<"Archived successfully">>]}
      [] OTHER -> {}

\* fault_result that hides the fault behind a success.
fault_result_masked(msg) == [status |-> "success", detail |-> <<"error", msg>>]

\* The dictionary of the except clause of _run_module, str(e) being msg.
fault_result(msg) == [status |-> "failed", detail |-> <<"error", msg>>]

\* unknown_module_result when an unknown name is treated as an error.
unknown_module_error(m) == [status |-> "failed", detail |-> <<"error", "Unknown module">>]

\* The dictionary of the else branch of the routing: f"Unknown module: {module_name}".
unknown_module_result(m) == [status |-> "skipped", detail |-> <<"Unknown module: ", m>>]

with_timestamp(r, t) ==
    [status |-> r.status, detail |-> r.detail, timestamp |-> t, saved_at |-> NoKey]

\* already_completed taking any record the step has as done.
already_completed_any_record(f, existing) ==
    ~f /\ existing # None

\* already_completed comparing the status with a word no handler returns.
already_completed_wrong_status(f, existing) ==
    ~f /\ existing # None /\ existing.status = "completed"

\* already_completed with the test of force inverted ("if force:").
already_completed_inverted_force(f, existing) ==
    f /\ existing # None /\ existing.status = "success"

\* "if not force: ... existing_result and existing_result.get('status') == 'success'"
already_completed(f, existing) ==
    ~f /\ existing # None /\ existing.status = "success"

----------------------------------------------------------------------------
\* No call of run_event is in progress and nothing has been written.
Fresh ==
    /\ event_dir = Events
    /\ ledger = [e \in EventIds |-> [m \in ModuleNames |-> None]]
    /\ workflow_state = [e \in EventIds |-> NoState]
    /\ clock = 0
    /\ pc = [w \in Workers |-> "idle"]
    /\ event_id = [w \in Workers |-> ""]
    /\ force = [w \in Workers |-> FALSE]
    /\ event_config = [w \in Workers |-> NoConfig]
    /\ enabled_modules = [w \in Workers |-> <<>>]
    /\ idx = [w \in Workers |-> 0]
    /\ result = [w \in Workers |-> None]
    /\ results = [w \in Workers |-> EmptyDict]
    /\ how = [w \in Workers |-> "none"]
    /\ invoked = [w \in Workers |-> <<>>]
    /\ handler_args = [w \in Workers |-> <<>>]
    /\ ret = [w \in Workers |-> [kind |-> "none", error |-> "", results |-> EmptyDict]]

Init ==
    /\ events \in [Events -> Configs]
    /\ Fresh
    /\ agg_results = EmptyDict
    /\ agg_status = "none"

\* datetime.now() moves on.
Tick ==
    /\ clock < MaxClock
    /\ clock' = clock + 1
    /\ UNCHANGED <<store, pc, locals, agg>>

\* run_event_load without "if not event_config: raise ValueError".
run_event_load_unchecked(w, e, f) ==
    /\ pc[w] = "idle"
    /\ event_id' = [event_id EXCEPT ![w] = e]
    /\ force' = [force EXCEPT ![w] = f]
    /\ event_config' = [event_config EXCEPT ![w] = load_event(e)]
    /\ enabled_modules' = [enabled_modules EXCEPT ![w] = _get_enabled_modules(load_event(e))]
    /\ idx' = [idx EXCEPT ![w] = 1]
    /\ pc' = [pc EXCEPT ![w] =
                IF _get_enabled_modules(load_event(e)) = <<>> THEN "save_state"
                ELSE "run_module"]
    /\ UNCHANGED <<store, clock, result, results, how, invoked, handler_args, ret, agg>>

\* run_event, from its call to the start of the for loop.
run_event_load(w, e, f) ==
    /\ pc[w] = "idle"
    /\ LET cfg == load_event(e) IN
       IF ~cfg.exists
       THEN /\ pc' = [pc EXCEPT ![w] = "raised"]
            /\ ret' = [ret EXCEPT ![w] = [kind |-> "ValueError",
                                          error |-> "Event not found",
                                          results |-> EmptyDict]]
            /\ event_id' = [event_id EXCEPT ![w] = e]
            /\ force' = [force EXCEPT ![w] = f]
            /\ UNCHANGED <<event_config, enabled_modules, idx>>
       ELSE /\ event_id' = [event_id EXCEPT ![w] = e]
            /\ force' = [force EXCEPT ![w] = f]
            /\ event_config' = [event_config EXCEPT ![w] = cfg]
            /\ enabled_modules' = [enabled_modules EXCEPT ![w] = _get_enabled_modules(cfg)]
            /\ idx' = [idx EXCEPT ![w] = 1]
            /\ pc' = [pc EXCEPT ![w] =
                        IF _get_enabled_modules(cfg) = <<>> THEN "save_state"
                        ELSE "run_module"]
            /\ UNCHANGED ret
    /\ UNCHANGED <<store, clock, result, results, how, invoked, handler_args, agg>>

\* Callers run one event's workflow at a time.
Start(w, e, f) ==
    /\ \A v \in Workers : pc[v] = "idle"
    /\ run_event_load(w, e, f)

module_name(w) == enabled_modules[w][idx[w]]

\* The routing passing the force flag on to the handler.
handler_arguments_with_force(w) == <<event_id[w], event_config[w], force[w]>>

\* The arguments of "self._run_<module>(event_id, event_config)".
handler_arguments(w) == <<event_id[w], event_config[w]>>

\* module_done with no try/except around the routing: a handler's exception
\* leaves run_event.
module_done_fault_escapes(w, r, h, calls) ==
    /\ result' = [result EXCEPT ![w] = r]
    /\ how' = [how EXCEPT ![w] = h]
    /\ invoked' = [invoked EXCEPT ![w] = invoked[w] \o calls]
    /\ handler_args' = [handler_args EXCEPT ![w] =
                           handler_args[w] \o [k \in 1..Len(calls) |-> handler_arguments(w)]]
    /\ IF h = "fault"
       THEN /\ pc' = [pc EXCEPT ![w] = "raised"]
            /\ ret' = [ret EXCEPT ![w] = [kind |-> "Exception", error |-> r.detail[2],
                                          results |-> EmptyDict]]
            /\ UNCHANGED results
       ELSE /\ pc' = [pc EXCEPT ![w] = "save_module"]
            /\ results' = [results EXCEPT ![w] = dict_set(results[w], module_name(w), r)]
            /\ UNCHANGED ret
    /\ UNCHANGED <<store, clock, event_id, force, event_config, enabled_modules,
                   idx, agg>>

\* The outcome of the call _run_module(...) and of "results[module_name] = result".
module_done(w, r, h, calls) ==
    /\ result' = [result EXCEPT ![w] = r]
    /\ results' = [results EXCEPT ![w] = dict_set(results[w], module_name(w), r)]
    /\ how' = [how EXCEPT ![w] = h]
    /\ invoked' = [invoked EXCEPT ![w] = invoked[w] \o calls]
    /\ handler_args' = [handler_args EXCEPT ![w] =
                           handler_args[w] \o [k \in 1..Len(calls) |-> handler_arguments(w)]]
    /\ pc' = [pc EXCEPT ![w] = "save_module"]
    /\ UNCHANGED <<store, clock, event_id, force, event_config, enabled_modules,
                   idx, ret, agg>>

_run_module(w) ==
    /\ pc[w] = "run_module"
    /\ force[w] \/ get_module_result(event_id[w], module_name(w)) # Torn
    /\ LET m == module_name(w)
           existing == get_module_result(event_id[w], m)
       IN  \/ /\ already_completed(force[w], existing)
              /\ module_done(w, existing, "reused", <<>>)
           \/ /\ ~already_completed(force[w], existing)
              /\ m \in RegisteredModules
              /\ \E r \in handler_returns(m) :
                    module_done(w, with_timestamp(r, clock), "handler", <<m>>)
           \/ /\ ~already_completed(force[w], existing)
              /\ m \in RegisteredModules
              /\ \E msg \in Faults :
                    module_done(w, with_timestamp(fault_result(msg), clock), "fault", <<m>>)
           \/ /\ ~already_completed(force[w], existing)
              /\ m \notin RegisteredModules
              /\ module_done(w, with_timestamp(unknown_module_result(m), clock),
                             "unknown", <<>>)

\* The dictionary save_module_result writes: result["saved_at"] = now.
saved_record(r, t) == [r EXCEPT !.saved_at = t]

\* save_failed with a status of its own for a result that was not saved.
save_failed_unsaved == [status |-> "unsaved", detail |-> <<"error", "Event directory not found">>,
                        timestamp |-> NoKey, saved_at |-> NoKey]

\* What the except clause of the for loop puts in results.
save_failed == [status |-> "failed", detail |-> <<"error", "Event directory not found">>,
                timestamp |-> NoKey, saved_at |-> NoKey]

\* A for loop that does not advance: the same module again.
next_module_stuck(w) ==
    /\ idx' = idx
    /\ pc' = [pc EXCEPT ![w] = "run_module"]

\* After the body of the for loop: the next module, or the end of the loop.
next_module(w) ==
    /\ idx' = [idx EXCEPT ![w] = idx[w] + 1]
    /\ pc' = [pc EXCEPT ![w] =
                IF idx[w] < Len(enabled_modules[w]) THEN "run_module" ELSE "save_state"]

\* save_module_result keeping the record in memory until the end of the run.
save_module_result_deferred(w) ==
    /\ pc[w] = "save_module"
    /\ result' = [result EXCEPT ![w] = saved_record(result[w], clock)]
    /\ results' = [results EXCEPT ![w] =
                      dict_set(results[w], module_name(w), saved_record(result[w], clock))]
    /\ next_module(w)
    /\ UNCHANGED <<store, clock, event_id, force, event_config, enabled_modules,
                   how, invoked, handler_args, ret, agg>>

\* save_module_result that leaves a success record in place when the result
\* to save is not a success.
save_module_result_keep_success(w) ==
    /\ pc[w] = "save_module"
    /\ LET e == event_id[w]
           m == module_name(w)
       IN  IF ledger[e][m].status = "success" /\ result[w].status # "success"
           THEN UNCHANGED <<ledger, result, results>>
           ELSE /\ ledger' = [ledger EXCEPT ![e][m] = saved_record(result[w], clock)]
                /\ result' = [result EXCEPT ![w] = saved_record(result[w], clock)]
                /\ results' = [results EXCEPT ![w] =
                                  dict_set(results[w], m, saved_record(result[w], clock))]
    /\ next_module(w)
    /\ UNCHANGED <<events, event_dir, workflow_state, clock, event_id, force,
                   event_config, enabled_modules, how, invoked, handler_args, ret, agg>>

\* "self.state_store.save_module_result(event_id, module_name, result)" and
\* the except clause around it.  result is the object held in results, so
\* the saved_at set on it shows in results too.
save_module_result(w) ==
    /\ pc[w] = "save_module"
    /\ LET e == event_id[w]
           m == module_name(w)
       IN  IF e \in event_dir
           THEN /\ ledger' = [ledger EXCEPT ![e][m] = saved_record(result[w], clock)]
                /\ result' = [result EXCEPT ![w] = saved_record(result[w], clock)]
                /\ results' = [results EXCEPT ![w] =
                                  dict_set(results[w], m, saved_record(result[w], clock))]
           ELSE /\ results' = [results EXCEPT ![w] = dict_set(results[w], m, save_failed)]
                /\ UNCHANGED <<ledger, result>>
    /\ next_module(w)
    /\ UNCHANGED <<events, event_dir, workflow_state, clock, event_id, force,
                   event_config, enabled_modules, how, invoked, handler_args, ret, agg>>

\* workflow_record that forgets the results of the run.
workflow_record_no_results(e, rs, t) ==
    [event_id |-> e, completed_at |-> t, module_results |-> EmptyDict,
     overall_status |-> _compute_overall_status(rs)]

\* workflow_record that gathers every step record the event has in the
\* ledger instead of the results of this run.
workflow_record_all_steps(e, rs, t) ==
    LET all == [m \in {n \in ModuleNames : ledger[e][n] # None} \cup DOMAIN rs |->
                   IF m \in DOMAIN rs THEN rs[m] ELSE ledger[e][m]]
    IN  [event_id |-> e, completed_at |-> t, module_results |-> all,
         overall_status |-> _compute_overall_status(all)]

\* The dictionary save_workflow_state writes.
workflow_record(e, rs, t) ==
    [event_id |-> e, completed_at |-> t, module_results |-> rs,
     overall_status |-> _compute_overall_status(rs)]

\* "self.state_store.save_workflow_state(event_id, results)" and "return results".
save_workflow_state(w) ==
    /\ pc[w] = "save_state"
    /\ LET e == event_id[w] IN
       IF e \in event_dir
       THEN /\ workflow_state' = [workflow_state EXCEPT ![e] =
                                     workflow_record(e, results[w], clock)]
            /\ pc' = [pc EXCEPT ![w] = "returned"]
            /\ ret' = [ret EXCEPT ![w] = [kind |-> "return", error |-> "",
                                          results |-> results[w]]]
       ELSE /\ pc' = [pc EXCEPT ![w] = "raised"]
            /\ ret' = [ret EXCEPT ![w] = [kind |-> "ValueError",
                                          error |-> "Event directory not found",
                                          results |-> EmptyDict]]
            /\ UNCHANGED workflow_state
    /\ UNCHANGED <<events, event_dir, ledger, clock, event_id, force, event_config,
                   enabled_modules, idx, result, results, how, invoked, handler_args, agg>>

\* The caller has the return value or the exception; the call's frame is gone.
finish(w) ==
    /\ pc[w] \in {"returned", "raised"}
    /\ pc' = [pc EXCEPT ![w] = "idle"]
    /\ event_id' = [event_id EXCEPT ![w] = ""]
    /\ force' = [force EXCEPT ![w] = FALSE]
    /\ event_config' = [event_config EXCEPT ![w] = NoConfig]
    /\ enabled_modules' = [enabled_modules EXCEPT ![w] = <<>>]
    /\ idx' = [idx EXCEPT ![w] = 0]
    /\ result' = [result EXCEPT ![w] = None]
    /\ results' = [results EXCEPT ![w] = EmptyDict]
    /\ how' = [how EXCEPT ![w] = "none"]
    /\ invoked' = [invoked EXCEPT ![w] = <<>>]
    /\ handler_args' = [handler_args EXCEPT ![w] = <<>>]
    /\ ret' = [ret EXCEPT ![w] = [kind |-> "none", error |-> "", results |-> EmptyDict]]
    /\ UNCHANGED <<store, clock, agg>>

Next ==
    \/ Tick
    \/ \E w \in Workers, e \in EventIds, f \in BOOLEAN : Start(w, e, f)
    \/ \E w \in Workers : _run_module(w)
    \/ \E w \in Workers : save_module_result(w)
    \/ \E w \in Workers : save_workflow_state(w)
    \/ \E w \in Workers : finish(w)

Spec == Init /\ [][Next]_vars

----------------------------------------------------------------------------
\* _compute_overall_status on its own, over every mapping of up to six
\* module names to a result with a terminal status.

AggStatuses == {"success", "failed", "skipped"}

AggResults ==
    UNION {[K -> {with_timestamp([status |-> st, detail |-> <<>>], NoKey) : st \in AggStatuses}] :
              K \in SUBSET RegisteredModules}

InitAgg ==
    /\ events = [e \in Events |-> [exists |-> TRUE, has_modules |-> FALSE, modules |-> <<>>]]
    /\ Fresh
    /\ agg_results \in AggResults
    /\ agg_status = "none"

compute_overall_status_call ==
    /\ agg_status = "none"
    /\ agg_status' = _compute_overall_status(agg_results)
    /\ UNCHANGED <<store, clock, pc, locals, agg_results>>

NextAgg == compute_overall_status_call

SpecAgg == InitAgg /\ [][NextAgg]_vars

----------------------------------------------------------------------------
\* Properties of run_event

\* The worker is inside a call of run_event that found its event.
Running(w) == pc[w] \in {"run_module", "save_module", "save_state", "returned"}

\* The step is the call _run_module(...) of worker w.
RunModuleStep(w) == pc[w] = "run_module" /\ pc'[w] = "save_module"

\* The step is the call save_module_result(...) of worker w.
SaveModuleStep(w) == pc[w] = "save_module" /\ pc'[w] # "save_module"

\* C1: in a run with force = False, a step whose ledger record has status
\* success when the step is reached has no handler invoked: the call of
\* _run_module adds nothing to the handlers invoked and takes the record as
\* its result.  It holds of every run of every sequence of runs.
C1_IdempotentSkip ==
    [][\A w \in Workers :
          (/\ RunModuleStep(w)
           /\ ~force[w]
           /\ ledger[event_id[w]][module_name(w)].status = "success")
          => /\ invoked'[w] = invoked[w]
             /\ how'[w] = "reused"
             /\ result'[w] = ledger[event_id[w]][module_name(w)]]_vars

\* A run without force has reused the success record of a step that an
\* earlier run left, and has invoked no handler so far.
C1_Witness ==
    \E w \in Workers :
        /\ pc[w] = "save_module"
        /\ ~force[w]
        /\ how[w] = "reused"
        /\ invoked[w] = <<>>
        /\ ledger[event_id[w]][module_name(w)].status = "success"

\* C2: a run with force = False leaves the persisted record of a step that
\* already had a success record identical in every field, saved_at included:
\* the save_module_result that follows the reuse does not change the record.
C2_RecordByteIdentical ==
    [][\A w \in Workers :
          (SaveModuleStep(w) /\ ~force[w] /\ how[w] = "reused")
          => ledger'[event_id[w]][module_name(w)] = ledger[event_id[w]][module_name(w)]]_vars

\* C3: over serial runs without force, a ledger status that is success is
\* success in the next state, whatever the handlers return.
C3_SuccessSticky ==
    [][(\A w \in Workers : ~force[w])
          => \A e \in EventIds, m \in ModuleNames :
                ledger[e][m].status = "success" => ledger'[e][m].status = "success"]_vars

\* A run without force has reused and saved again the success of subtitles,
\* whose handler can report failure.
C3_Witness ==
    \E w \in Workers :
        /\ pc[w] \in {"run_module", "save_state"}
        /\ ~force[w]
        /\ idx[w] > 1
        /\ enabled_modules[w][idx[w] - 1] = "subtitles"
        /\ how[w] = "reused"
        /\ ledger[event_id[w]]["subtitles"].status = "success"
        /\ ledger[event_id[w]]["subtitles"].saved_at = clock

\* How many modules of enabled_modules the for loop of worker w has been
\* through (the call of _run_module made), and how many it has saved.
Reached(w) == IF pc[w] = "save_module" THEN idx[w] ELSE idx[w] - 1
Saved(w) == idx[w] - 1

\* The names among s that have a handler, in the order of s.
WithHandler(s) == SelectSeq(s, LAMBDA n : n \in RegisteredModules)

\* C4: a run with force = True invokes the handler of every enabled step
\* that has one, as if the ledger held nothing: whatever the ledger holds,
\* the handlers invoked are those of the steps reached so far, one each.
C4_ForceOverride ==
    \A w \in Workers :
        (Running(w) /\ force[w])
        => invoked[w] = WithHandler(SubSeq(enabled_modules[w], 1, Reached(w)))

\* A forced run has invoked the handler of a step whose ledger record is success.
C4_Witness ==
    \E w \in Workers :
        /\ pc[w] = "save_module"
        /\ force[w]
        /\ ledger[event_id[w]][module_name(w)].status = "success"
        /\ how[w] = "handler"
        /\ invoked[w][Len(invoked[w])] = module_name(w)

\* The step map of the configuration the repository holds for the event of w.
StepMap(w) == modules_config(events[event_id[w]])

\* The place of name n in the step map of w.
Place(w, n) == CHOOSE j \in 1..Len(StepMap(w)) : StepMap(w)[j].name = n

\* The entries of the step map whose flag is true and that have a handler.
EnabledWithHandler(w) ==
    SelectSeq(StepMap(w), LAMBDA x : x.enabled /\ x.name \in RegisteredModules)

\* C5: the steps of a run are processed in the insertion order of the step
\* map restricted to the entries whose flag is true: every step reached has
\* its flag true, the steps are reached in increasing place, at the end of
\* the loop every entry whose flag is true has been reached, handlers are
\* invoked only for steps reached, and a forced run's invocations are the
\* enabled entries with a handler in step map order (a function of the
\* configuration alone, so the same for any two forced runs).
C5_OrderDeterminism ==
    \A w \in Workers :
        Running(w) =>
            LET done == SubSeq(enabled_modules[w], 1, Reached(w)) IN
            /\ \A i \in 1..Len(done) :
                  \E j \in 1..Len(StepMap(w)) :
                      StepMap(w)[j].name = done[i] /\ StepMap(w)[j].enabled
            /\ \A i, k \in 1..Len(done) : i < k => Place(w, done[i]) < Place(w, done[k])
            /\ pc[w] \in {"save_state", "returned"} =>
                  \A j \in 1..Len(StepMap(w)) :
                      StepMap(w)[j].enabled => \E i \in 1..Len(done) : done[i] = StepMap(w)[j].name
            /\ \A i \in 1..Len(invoked[w]) : \E k \in 1..Len(done) : done[k] = invoked[w][i]
            /\ \A i, k \in 1..Len(invoked[w]) :
                  i < k => Place(w, invoked[w][i]) < Place(w, invoked[w][k])
            /\ (force[w] /\ pc[w] \in {"save_state", "returned"}) =>
                  /\ Len(invoked[w]) = Len(EnabledWithHandler(w))
                  /\ \A i \in 1..Len(invoked[w]) : invoked[w][i] = EnabledWithHandler(w)[i].name

\* A forced run over a step map of three entries, the middle one disabled,
\* has returned after invoking the handlers of the first and the third.
C5_Witness ==
    \E w \in Workers :
        /\ pc[w] = "returned"
        /\ force[w]
        /\ Len(StepMap(w)) = 3
        /\ StepMap(w)[1].enabled /\ ~StepMap(w)[2].enabled /\ StepMap(w)[3].enabled
        /\ invoked[w] = <<StepMap(w)[1].name, StepMap(w)[3].name>>

\* The handler of the step at place i of enabled_modules of w raised.
Faulted(w, i) ==
    /\ enabled_modules[w][i] \in DOMAIN results[w]
    /\ results[w][enabled_modules[w][i]].status = "failed"
    /\ Len(results[w][enabled_modules[w][i]].detail) = 2
    /\ results[w][enabled_modules[w][i]].detail[2] \in Faults

\* C6: when the handler of enabled step i raises, every enabled step after
\* i is still processed and its result recorded in the ledger, the run goes
\* on to its return, and no exception of a handler leaves run_event.
C6_FailureIsolation ==
    \A w \in Workers :
        /\ pc[w] = "raised" => ret[w].error \notin Faults
        /\ \A i \in 1..Len(enabled_modules[w]) :
              (Running(w) /\ i <= Saved(w) /\ Faulted(w, i))
              => /\ ledger[event_id[w]][enabled_modules[w][i]].status = "failed"
                 /\ pc[w] \in {"save_state", "returned"} =>
                       \A k \in (i + 1)..Len(enabled_modules[w]) :
                           /\ enabled_modules[w][k] \in DOMAIN results[w]
                           /\ ledger[event_id[w]][enabled_modules[w][k]]
                                 = results[w][enabled_modules[w][k]]
                           /\ ledger[event_id[w]][enabled_modules[w][k]].status
                                 \in {"success", "failed", "skipped"}
                 /\ pc[w] = "returned" => ret[w].kind = "return"
                 /\ pc[w] # "returned" =>
                       ENABLED (save_module_result(w) \/ _run_module(w)
                                   \/ save_workflow_state(w))

\* A run has returned in which the handler of one step raised and the
\* handler of the step after it was invoked and succeeded.
C6_Witness ==
    \E w \in Workers :
        /\ pc[w] = "returned"
        /\ \E i \in 1..Len(enabled_modules[w]) :
              /\ Faulted(w, i)
              /\ i < Len(enabled_modules[w])
              /\ results[w][enabled_modules[w][i + 1]].status = "success"
              /\ \E k \in 1..Len(invoked[w]) : invoked[w][k] = enabled_modules[w][i + 1]

\* C7: when the repository has no configuration for event_id, run_event
\* raises the event-not-found error in the one step of its call, with no
\* handler invoked and every step record and run record left as it was.
C7_MissingEvent ==
    [][\A w \in Workers :
          (pc[w] = "idle" /\ pc'[w] # "idle" /\ event_id'[w] \notin DOMAIN events)
          => /\ pc'[w] = "raised"
             /\ ret'[w].kind = "ValueError"
             /\ ret'[w].error = "Event not found"
             /\ invoked'[w] = <<>>
             /\ ledger' = ledger
             /\ workflow_state' = workflow_state]_vars

\* run_event has raised event-not-found for the missing id while the ledger
\* holds a run record and a step record of an existing event.
C7_Witness ==
    \E w \in Workers :
        /\ pc[w] = "raised"
        /\ event_id[w] = MissingEvent
        /\ ret[w].error = "Event not found"
        /\ \E e \in Events :
              /\ workflow_state[e] # NoState
              /\ \E m \in ModuleNames : ledger[e][m] # None

\* C8: an enabled step with no handler gets a result with status skipped
\* whose message names the step; once saved the ledger holds that result;
\* no error is raised, and the enabled steps after it are all processed.
C8_UnknownStep ==
    \A w \in Workers :
        /\ pc[w] = "raised" => ret[w].error = "Event not found"
        /\ Running(w) =>
              \A i \in 1..Len(enabled_modules[w]) :
                  LET m == enabled_modules[w][i] IN
                  (m \notin RegisteredModules /\ i <= Reached(w))
                  => /\ m \in DOMAIN results[w]
                     /\ results[w][m].status = "skipped"
                     /\ results[w][m].detail = <<"Unknown module: ", m>>
                     /\ i <= Saved(w) => ledger[event_id[w]][m] = results[w][m]
                     /\ pc[w] \in {"save_state", "returned"} =>
                           \A k \in (i + 1)..Len(enabled_modules[w]) :
                               /\ enabled_modules[w][k] \in DOMAIN results[w]
                               /\ ledger[event_id[w]][enabled_modules[w][k]].status
                                     \in {"success", "failed", "skipped"}

\* A run has returned in which an unknown step was skipped and the step
\* after it had its handler invoked.
C8_Witness ==
    \E w \in Workers :
        /\ pc[w] = "returned"
        /\ \E i \in 1..Len(enabled_modules[w]) :
              /\ enabled_modules[w][i] \notin RegisteredModules
              /\ ledger[event_id[w]][enabled_modules[w][i]].status = "skipped"
              /\ i < Len(enabled_modules[w])
              /\ \E k \in 1..Len(invoked[w]) : invoked[w][k] = enabled_modules[w][i + 1]

\* C9: for a non-empty mapping of step results with statuses in success,
\* failed, skipped, _compute_overall_status returns success iff every status
\* is success, partial iff at least one is success and at least one is not,
\* and failed iff none is success; a skipped result is not a success.
C9_AggregateRules ==
    (agg_status # "none" /\ DOMAIN agg_results # {}) =>
        LET S == {agg_results[n].status : n \in DOMAIN agg_results} IN
        /\ agg_status \in {"success", "partial", "failed"}
        /\ agg_status = "success" <=> S = {"success"}
        /\ agg_status = "partial" <=> ("success" \in S /\ S # {"success"})
        /\ agg_status = "failed" <=> "success" \notin S
        /\ "skipped" \in S => agg_status # "success"

\* The aggregate of a mapping of one success and one skipped result is partial.
C9_Witness ==
    /\ agg_status = "partial"
    /\ Cardinality(DOMAIN agg_results) = 2
    /\ {agg_results[n].status : n \in DOMAIN agg_results} = {"success", "skipped"}

\* The configuration has no enabled step: no step map, or every flag false.
NoEnabledStep(cfg) ==
    ~cfg.has_modules \/ \A j \in 1..Len(cfg.modules) : ~cfg.modules[j].enabled

\* C10: a run of an existing event with no enabled step invokes no
\* handler, and its save_workflow_state writes a run record with an empty
\* step mapping and aggregate status failed, then returns.
C10_EmptyRunFailed ==
    [][\A w \in Workers :
          (/\ pc[w] = "save_state" /\ pc'[w] # "save_state"
           /\ event_id[w] \in DOMAIN events
           /\ NoEnabledStep(events[event_id[w]]))
          => /\ pc'[w] = "returned"
             /\ invoked'[w] = <<>>
             /\ workflow_state'[event_id[w]].event_id = event_id[w]
             /\ workflow_state'[event_id[w]].completed_at = clock
             /\ workflow_state'[event_id[w]].module_results = EmptyDict
             /\ workflow_state'[event_id[w]].overall_status = "failed"]_vars

\* A run of an event whose two steps are both disabled has returned, with
\* the run record failed and no handler invoked.
C10_Witness ==
    \E w \in Workers :
        /\ pc[w] = "returned"
        /\ Len(StepMap(w)) = 2
        /\ NoEnabledStep(events[event_id[w]])
        /\ invoked[w] = <<>>
        /\ workflow_state[event_id[w]].overall_status = "failed"

----------------------------------------------------------------------------
\* Serial runs of an event whose step map is edited between runs.

\* The step map the edited event starts with: the three names, all enabled.
ReconfModules ==
    <<[name |-> "subtitles", enabled |-> TRUE],
      [name |-> "custom_step", enabled |-> TRUE],
      [name |-> "thumbnail_ai", enabled |-> TRUE]>>

InitReconf ==
    /\ events = [e \in Events |->
                    [exists |-> TRUE, has_modules |-> TRUE, modules |-> ReconfModules]]
    /\ Fresh
    /\ agg_results = EmptyDict
    /\ agg_status = "none"

\* Between two runs, the event repository sets the enabled flag of entry j
\* of the step map.
set_module_enabled(e, j, b) ==
    /\ \A w \in Workers : pc[w] = "idle"
    /\ e \in DOMAIN events
    /\ events[e].has_modules
    /\ j \in 1..Len(events[e].modules)
    /\ events[e].modules[j].enabled # b
    /\ events' = [events EXCEPT ![e].modules[j].enabled = b]
    /\ UNCHANGED <<event_dir, ledger, workflow_state, clock, pc, locals, agg>>

NextReconf ==
    \/ Next
    \/ \E e \in Events, j \in 1..Cardinality(ModuleNames), b \in BOOLEAN :
          set_module_enabled(e, j, b)

SpecReconf == InitReconf /\ [][NextReconf]_vars

\* The step is the call save_workflow_state(...) of worker w and its return.
SaveStateStep(w) == pc[w] = "save_state" /\ pc'[w] = "returned"

\* The names whose flag is true in the configuration worker w loaded.
EnabledSet(w) ==
    {modules_config(event_config[w])[j].name :
        j \in {k \in 1..Len(modules_config(event_config[w])) :
                  modules_config(event_config[w])[k].enabled}}

\* The aggregate status the rules of the status aggregator give a mapping.
AggregateOf(rs) ==
    LET S == {rs[n].status : n \in DOMAIN rs} IN
    IF S = {} THEN "failed"
    ELSE IF S = {"success"} THEN "success"
    ELSE IF "success" \in S THEN "partial"
    ELSE "failed"

C12_RunRecordContent ==
    [][/\ \A w \in Workers :
            SaveStateStep(w) =>
                /\ idx[w] = Len(enabled_modules[w]) + 1
                /\ workflow_state'[event_id[w]].event_id = event_id[w]
                /\ DOMAIN workflow_state'[event_id[w]].module_results = EnabledSet(w)
                /\ workflow_state'[event_id[w]].module_results = results[w]
                /\ workflow_state'[event_id[w]].overall_status
                      = AggregateOf(workflow_state'[event_id[w]].module_results)
       /\ workflow_state' # workflow_state =>
            \E w \in Workers :
                /\ SaveStateStep(w)
                /\ \A e \in EventIds \ {event_id[w]} : workflow_state'[e] = workflow_state[e]]_vars

\* A run has returned whose run record has an entry for its one enabled
\* step and none for a step that is disabled now and has a ledger record
\* of an earlier run.
C12_Witness ==
    \E w \in Workers :
        /\ pc[w] = "returned"
        /\ Cardinality(EnabledSet(w)) = 1
        /\ DOMAIN workflow_state[event_id[w]].module_results = EnabledSet(w)
        /\ \E m \in ModuleNames \ EnabledSet(w) : ledger[event_id[w]][m] # None

----------------------------------------------------------------------------
\* Serial runs over a ledger whose writes can fail.

\* The directory of event e goes away or stops taking writes: from now on
\* save_module_result and save_workflow_state raise for e.
storage_fault(e) ==
    /\ e \in event_dir
    /\ event_dir' = event_dir \ {e}
    /\ UNCHANGED <<events, ledger, workflow_state, clock, pc, locals, agg>>

\* The directory of event e takes writes again.
storage_repair(e) ==
    /\ e \in DOMAIN events
    /\ e \notin event_dir
    /\ event_dir' = event_dir \cup {e}
    /\ UNCHANGED <<events, ledger, workflow_state, clock, pc, locals, agg>>

NextFault ==
    \/ Next
    \/ \E e \in Events : storage_fault(e)
    \/ \E e \in Events : storage_repair(e)

\* The step map of the event whose ledger fails: two enabled steps.
FaultModules ==
    <<[name |-> "subtitles", enabled |-> TRUE],
      [name |-> "thumbnail_ai", enabled |-> TRUE]>>

InitFault ==
    /\ events = [e \in Events |->
                    [exists |-> TRUE, has_modules |-> TRUE, modules |-> FaultModules]]
    /\ Fresh
    /\ agg_results = EmptyDict
    /\ agg_status = "none"

SpecFault == InitFault /\ [][NextFault]_vars

\* save_module_result raised for the step at place i of this run of w.
SaveFailed(w, i) ==
    /\ i <= Saved(w)
    /\ results[w][enabled_modules[w][i]] = save_failed

\* C13: once save_module_result has failed for an enabled step of a run, the
\* run invokes no handler of a later step and writes no further step record.
C13_SaveFailureAborts ==
    [][\A w \in Workers :
          (/\ Running(w) /\ pc'[w] # "idle"
           /\ \E i \in 1..Len(enabled_modules[w]) : SaveFailed(w, i))
          => /\ invoked'[w] = invoked[w]
             /\ ledger'[event_id[w]] = ledger[event_id[w]]]_vars

\* C14: whenever run_event returns normally, every step result of the
\* returned mapping is in the ledger with the same status (a failed ledger
\* write ends the call with an error instead).
C14_NoUnrecordedStep ==
    \A w \in Workers :
        pc[w] = "returned" =>
            \A m \in DOMAIN ret[w].results :
                /\ ledger[event_id[w]][m] # None
                /\ ledger[event_id[w]][m].status = ret[w].results[m].status

\* The statuses a finished step has.
TerminalStatuses == {"success", "failed", "skipped"}

\* C17: every step record in the ledger and every entry of every persisted
\* run record has a status among success, failed and skipped, the results
\* made by the except clauses of run_event and _run_module included; the
\* aggregate of a persisted run record is success, partial or failed.
C17_OnlyTerminalStatuses ==
    \A e \in EventIds :
        /\ \A m \in ModuleNames :
              ledger[e][m] # None => ledger[e][m].status \in TerminalStatuses
        /\ workflow_state[e] # NoState =>
              /\ \A m \in DOMAIN workflow_state[e].module_results :
                    workflow_state[e].module_results[m].status \in TerminalStatuses
              /\ workflow_state[e].overall_status \in {"success", "partial", "failed"}

\* A persisted run record holds the result the except clause of run_event
\* made for a failed save, beside the result of an except clause of
\* _run_module that is also in the ledger.
C17_Witness ==
    \E e \in Events :
        /\ \E m \in DOMAIN workflow_state[e].module_results :
              workflow_state[e].module_results[m] = save_failed
        /\ \E m \in DOMAIN workflow_state[e].module_results :
              /\ workflow_state[e].module_results[m].detail = <<"error", "handler fault">>
              /\ ledger[e][m] = workflow_state[e].module_results[m]

\* C15: within one run, the ledger write of a step's result comes after the
\* step's handler has returned and before the next step is reached: a step
\* record changes only in the save_module_result call of a run that is at
\* that step and holds its result, and when _run_module is called for a
\* step every earlier step of the run is in the ledger with its result.
C15_IncrementalDurability ==
    [][/\ \A w \in Workers :
            RunModuleStep(w) =>
                \A k \in 1..(idx[w] - 1) :
                    ledger[event_id[w]][enabled_modules[w][k]]
                        = results[w][enabled_modules[w][k]]
       /\ \A e \in EventIds, m \in ModuleNames :
            ledger'[e][m] # ledger[e][m] =>
                \E w \in Workers :
                    /\ SaveModuleStep(w)
                    /\ event_id[w] = e
                    /\ module_name(w) = m
                    /\ m \in DOMAIN results[w]
                    /\ how[w] # "none"
                    /\ ledger'[e][m] = [results[w][m] EXCEPT !.saved_at = clock]]_vars

\* A run is about to process its second step; the handler of its first
\* step was invoked in this run and its result is in the ledger.
C15_Witness ==
    \E w \in Workers :
        /\ pc[w] = "run_module"
        /\ idx[w] = 2
        /\ invoked[w] = <<enabled_modules[w][1]>>
        /\ ledger[event_id[w]][enabled_modules[w][1]] = results[w][enabled_modules[w][1]]
        /\ ledger[event_id[w]][enabled_modules[w][2]] = None

\* C18: after the loop of a forced run, the ledger record of every enabled
\* step is the result this run produced for it (its handler was invoked in
\* this run, or the step has no handler and was skipped), whatever record
\* the step had before.
C18_ForcedRunOverwrites ==
    \A w \in Workers :
        (force[w] /\ pc[w] \in {"save_state", "returned"}) =>
            \A i \in 1..Len(enabled_modules[w]) :
                LET m == enabled_modules[w][i] IN
                /\ m \in DOMAIN results[w]
                /\ ledger[event_id[w]][m] = results[w][m]
                /\ results[w][m].status \in TerminalStatuses
                /\ m \in RegisteredModules =>
                      /\ \E k \in 1..Len(invoked[w]) : invoked[w][k] = m
                      /\ results[w][m].status \in {"success", "failed"}
                /\ m \notin RegisteredModules => results[w][m].status = "skipped"

\* A forced run has finished its loop; subtitles, success in the run record
\* of the run before, failed in this run and is failed in the ledger.
C18_Witness ==
    \E w \in Workers :
        /\ force[w]
        /\ pc[w] = "save_state"
        /\ "subtitles" \in DOMAIN workflow_state[event_id[w]].module_results
        /\ workflow_state[event_id[w]].module_results["subtitles"].status = "success"
        /\ "subtitles" \in DOMAIN results[w]
        /\ results[w]["subtitles"].status = "failed"
        /\ ledger[event_id[w]]["subtitles"].status = "failed"

----------------------------------------------------------------------------
\* Serial runs in a process that can be killed.

\* workflow_state.json truncated by open(state_file, 'w') and not filled.
TornState == [event_id |-> "", completed_at |-> NoKey,
              module_results |-> EmptyDict, overall_status |-> "torn"]

\* What the except clause of the for loop puts in results when json.load
\* raises in get_module_result.
read_failed == [status |-> "failed", detail |-> <<"error", "Expecting value">>,
                timestamp |-> NoKey, saved_at |-> NoKey]

\* _run_module when the step's record file does not parse: the decode error
\* leaves _run_module (line 90 is outside its try) and the except clause of
\* the for loop takes it; nothing is saved for the step.
_run_module_read_error(w) ==
    /\ pc[w] = "run_module"
    /\ ~force[w]
    /\ get_module_result(event_id[w], module_name(w)) = Torn
    /\ results' = [results EXCEPT ![w] = dict_set(results[w], module_name(w), read_failed)]
    /\ how' = [how EXCEPT ![w] = "read_error"]
    /\ next_module(w)
    /\ UNCHANGED <<store, clock, event_id, force, event_config, enabled_modules,
                   result, invoked, handler_args, ret, agg>>

\* The frame of the call of worker w is lost with the process.
frame_lost(w) ==
    /\ pc' = [pc EXCEPT ![w] = "idle"]
    /\ event_id' = [event_id EXCEPT ![w] = ""]
    /\ force' = [force EXCEPT ![w] = FALSE]
    /\ event_config' = [event_config EXCEPT ![w] = NoConfig]
    /\ enabled_modules' = [enabled_modules EXCEPT ![w] = <<>>]
    /\ idx' = [idx EXCEPT ![w] = 0]
    /\ result' = [result EXCEPT ![w] = None]
    /\ results' = [results EXCEPT ![w] = EmptyDict]
    /\ how' = [how EXCEPT ![w] = "none"]
    /\ invoked' = [invoked EXCEPT ![w] = <<>>]
    /\ handler_args' = [handler_args EXCEPT ![w] = <<>>]
    /\ ret' = [ret EXCEPT ![w] = [kind |-> "none", error |-> "", results |-> EmptyDict]]
    /\ UNCHANGED <<events, event_dir, clock, agg>>

\* The process dies between two file operations of run_event.
crash(w) ==
    /\ pc[w] \in {"run_module", "save_module", "save_state"}
    /\ frame_lost(w)
    /\ UNCHANGED <<ledger, workflow_state>>

\* The process dies in save_module_result after open(result_file, 'w') and
\* before json.dump has written the record out.
crash_in_save_module_result(w) ==
    /\ pc[w] = "save_module"
    /\ event_id[w] \in event_dir
    /\ ledger' = [ledger EXCEPT ![event_id[w]][module_name(w)] = Torn]
    /\ frame_lost(w)
    /\ UNCHANGED workflow_state

\* The process dies in save_workflow_state after open(state_file, 'w') and
\* before json.dump has written the record out.
crash_in_save_workflow_state(w) ==
    /\ pc[w] = "save_state"
    /\ event_id[w] \in event_dir
    /\ workflow_state' = [workflow_state EXCEPT ![event_id[w]] = TornState]
    /\ frame_lost(w)
    /\ UNCHANGED ledger

NextCrash ==
    \/ Next
    \/ \E w \in Workers : _run_module_read_error(w)
    \/ \E w \in Workers : crash(w)
    \/ \E w \in Workers : crash_in_save_module_result(w)
    \/ \E w \in Workers : crash_in_save_workflow_state(w)

SpecCrash == InitFault /\ [][NextCrash]_vars

\* The run of w is between its first step and its return.
MidRun(w) == pc[w] \in {"run_module", "save_module", "save_state"}

\* The step is the death of the process during the run of w.
CrashStep(w) == MidRun(w) /\ pc'[w] = "idle"

\* C16: when the process dies during a run after k steps have finished
\* (handler returned and record saved), the ledger has the results of
\* those k steps and every other step record is as it was, the run record
\* is the one from before the run, and a finished step that succeeded has
\* a record that makes the next run with force = False skip it.  The run
\* record changes only in the save_workflow_state call that ends a run.
C16_CrashMidRun ==
    [][/\ \A w \in Workers :
            CrashStep(w) =>
                /\ \A i \in 1..Len(enabled_modules[w]) :
                      LET m == enabled_modules[w][i] IN
                      IF i <= Saved(w) /\ results[w][m] # read_failed
                      THEN /\ ledger'[event_id[w]][m] = results[w][m]
                           /\ results[w][m].status \in TerminalStatuses
                           /\ results[w][m].status = "success" =>
                                 already_completed(FALSE,
                                                   get_module_result(event_id[w], m)')
                      ELSE ledger'[event_id[w]][m] = ledger[event_id[w]][m]
                /\ workflow_state'[event_id[w]] = workflow_state[event_id[w]]
       /\ workflow_state' # workflow_state => \E w \in Workers : SaveStateStep(w)]_vars

----------------------------------------------------------------------------
\* Runs of two events by two callers (the API server and the command line
\* of workflow_controller.py are separate processes over the same events
\* directory), interleaved at the file operations.

IsoEvents == {"evA", "evB"}

\* The step map of both events: one enabled step, the same name in both.
IsoModules == <<[name |-> "subtitles", enabled |-> TRUE]>>

InitIso ==
    /\ events = [e \in IsoEvents |->
                    [exists |-> TRUE, has_modules |-> TRUE, modules |-> IsoModules]]
    /\ event_dir = IsoEvents
    /\ ledger = [e \in IsoEvents |-> [m \in ModuleNames |-> None]]
    /\ workflow_state = [e \in IsoEvents |-> NoState]
    /\ clock = 0
    /\ pc = [w \in Workers |-> "idle"]
    /\ event_id = [w \in Workers |-> ""]
    /\ force = [w \in Workers |-> FALSE]
    /\ event_config = [w \in Workers |-> NoConfig]
    /\ enabled_modules = [w \in Workers |-> <<>>]
    /\ idx = [w \in Workers |-> 0]
    /\ result = [w \in Workers |-> None]
    /\ results = [w \in Workers |-> EmptyDict]
    /\ how = [w \in Workers |-> "none"]
    /\ invoked = [w \in Workers |-> <<>>]
    /\ handler_args = [w \in Workers |-> <<>>]
    /\ ret = [w \in Workers |-> [kind |-> "none", error |-> "", results |-> EmptyDict]]
    /\ agg_results = EmptyDict
    /\ agg_status = "none"

\* A caller starts a run of e while no other caller is in a run of e.
start_other_event(w, e, f) ==
    /\ \A v \in Workers \ {w} : pc[v] # "idle" => event_id[v] # e
    /\ run_event_load(w, e, f)

NextIso ==
    \/ Tick
    \/ \E w \in Workers, e \in IsoEvents, f \in BOOLEAN : start_other_event(w, e, f)
    \/ \E w \in Workers : _run_module(w)
    \/ \E w \in Workers : save_module_result(w)
    \/ \E w \in Workers : save_workflow_state(w)
    \/ \E w \in Workers : finish(w)

SpecIso == InitIso /\ [][NextIso]_vars

\* C19: with runs of different events interleaved, the step records and the
\* run record of an event change only in the save calls of a run of that
\* event; a run's decision to reuse a record depends on the record of its
\* own event only; and at the end of a run the event's step records are the
\* results of that run and its run record is made of them, as in a run
\* that has the ledger to itself.
C19_PerEventIsolation ==
    [][/\ \A e \in IsoEvents :
            (ledger'[e] # ledger[e] \/ workflow_state'[e] # workflow_state[e]) =>
                \E w \in Workers :
                    /\ event_id[w] = e
                    /\ SaveModuleStep(w) \/ SaveStateStep(w)
       /\ \A w \in Workers :
            RunModuleStep(w) =>
                /\ how'[w] = "reused" <=>
                      (~force[w] /\ ledger[event_id[w]][module_name(w)].status = "success")
                /\ how'[w] = "reused" =>
                      result'[w] = ledger[event_id[w]][module_name(w)]
       /\ \A w \in Workers :
            SaveStateStep(w) =>
                /\ \A m \in DOMAIN results[w] : ledger[event_id[w]][m] = results[w][m]
                /\ workflow_state'[event_id[w]]
                      = workflow_record(event_id[w], results[w], clock)]_vars

\* Two runs of different events are in progress at once, each has saved
\* its first step, and the two events' records for that step differ.
C19_Witness ==
    \E w, v \in Workers :
        /\ MidRun(w) /\ MidRun(v)
        /\ event_id[w] = "evA" /\ event_id[v] = "evB"
        /\ Saved(w) >= 1 /\ Saved(v) >= 1
        /\ ledger["evA"]["subtitles"].status = "success"
        /\ ledger["evB"]["subtitles"].status = "failed"

----------------------------------------------------------------------------
\* Runs of one event by two callers, interleaved at the file operations.

NextConc ==
    \/ Tick
    \/ \E w \in Workers, e \in Events, f \in BOOLEAN : run_event_load(w, e, f)
    \/ \E w \in Workers : _run_module(w)
    \/ \E w \in Workers : save_module_result(w)
    \/ \E w \in Workers : save_workflow_state(w)
    \/ \E w \in Workers : finish(w)

\* The event has one enabled step, subtitles.
InitConc ==
    /\ events = [e \in Events |->
                    [exists |-> TRUE, has_modules |-> TRUE, modules |-> IsoModules]]
    /\ Fresh
    /\ agg_results = EmptyDict
    /\ agg_status = "none"

SpecConc == InitConc /\ [][NextConc]_vars

\* C20: nothing in run_event or StateStore holds a run back while another
\* run of the same event is in progress.  A run with force = False that
\* reaches a step with no success record invokes the step's handler, also
\* when the other run has invoked it already, and a run that holds a result
\* writes it over whatever record the step has, also a success the other
\* run has written since.
C20_SameEventUnsafe ==
    \A w \in Workers : \A v \in Workers \ {w} :
        (MidRun(v) /\ event_id[v] = event_id[w]) =>
            /\ (/\ pc[w] = "run_module"
                /\ ~force[w]
                /\ ledger[event_id[w]][module_name(w)].status # "success"
                /\ module_name(w) \in RegisteredModules) =>
                  ENABLED (/\ _run_module(w)
                           /\ invoked'[w] = Append(invoked[w], module_name(w)))
            /\ pc[w] = "save_module" =>
                  ENABLED (/\ save_module_result(w)
                           /\ ledger'[event_id[w]][module_name(w)]
                                 = saved_record(result[w], clock))

\* Two runs with force = False of the same event have both invoked the
\* handler of subtitles; one saved success, and the record of the other,
\* failed, is the one in the ledger.
C20_Witness ==
    \E w \in Workers : \E v \in Workers \ {w} :
        /\ Running(w) /\ Running(v)
        /\ event_id[w] = event_id[v]
        /\ ~force[w] /\ ~force[v]
        /\ \E k \in 1..Len(invoked[w]) : invoked[w][k] = "subtitles"
        /\ \E k \in 1..Len(invoked[v]) : invoked[v][k] = "subtitles"
        /\ "subtitles" \in DOMAIN results[v]
        /\ results[v]["subtitles"].status = "success"
        /\ results[v]["subtitles"].saved_at # NoKey
        /\ "subtitles" \in DOMAIN results[w]
        /\ results[w]["subtitles"].status = "failed"
        /\ results[w]["subtitles"].saved_at # NoKey
        /\ ledger[event_id[w]]["subtitles"] = results[w]["subtitles"]

----------------------------------------------------------------------------
\* C21: a write of a step record is a single atomic replace: whenever the
\* record of a step changes, also when the process dies in the write, the
\* new content is a complete record (a terminal status and a saved_at),
\* never an empty or cut file.
C21_AtomicStepWrites ==
    [][\A e \in EventIds, m \in ModuleNames :
            ledger'[e][m] # ledger[e][m] =>
                /\ ledger'[e][m].status \in TerminalStatuses
                /\ ledger'[e][m].saved_at # NoKey]_vars

----------------------------------------------------------------------------
----------------------------------------------------------------------------
\* Serial runs in which a call that can take its next step takes it: every
\* handler call returns or raises, and the synchronous code of run_event
\* goes on after it.

Fairness ==
    \A w \in Workers :
        /\ WF_vars(_run_module(w))
        /\ WF_vars(save_module_result(w))
        /\ WF_vars(save_workflow_state(w))

SpecLive == InitFault /\ [][Next]_vars /\ Fairness

\* The run of w has written its run record and returned its results, one
\* for every enabled step.
Completed(w) ==
    /\ pc[w] = "returned"
    /\ ret[w].kind = "return"
    /\ DOMAIN ret[w].results = EnabledSet(w)
    /\ workflow_state[event_id[w]].event_id = event_id[w]
    /\ workflow_state[event_id[w]].module_results = ret[w].results

\* C23: a call of run_event for an existing event, once past the load of
\* the configuration, eventually writes a run record and returns; a call
\* that has returned has given its caller a result for every enabled step,
\* and a call that has raised has done so for a missing event.
C23_RunCompletion ==
    /\ \A w \in Workers : MidRun(w) ~> Completed(w)
    /\ [](\A w \in Workers :
            /\ pc[w] = "returned" => Completed(w)
            /\ pc[w] = "raised" =>
                  /\ event_id[w] \notin DOMAIN events
                  /\ ret[w].kind = "ValueError"
                  /\ ret[w].error = "Event not found")

\* A run with a handler that raised has completed with both steps in its
\* results.
C23_Witness ==
    \E w \in Workers :
        /\ Completed(w)
        /\ Cardinality(DOMAIN ret[w].results) = 2
        /\ \E m \in DOMAIN ret[w].results :
              ret[w].results[m].detail = <<"error", "handler fault">>

----------------------------------------------------------------------------
\* The result r is the one made from a handler's exception.
FromFault(r) == Len(r.detail) = 2 /\ r.detail[1] = "error" /\ r.detail[2] \in Faults

\* C24: when a handler raises, the result of the step is failed with the
\* message of the exception as its error, it is put in the results of the
\* run, the save that follows writes it as the step's record, and the run
\* record written at the end has it among its results and is not success.
C24_FaultRecorded ==
    [][\A w \in Workers :
          /\ (pc[w] = "run_module" /\ how'[w] = "fault" /\ invoked'[w] # invoked[w]) =>
                /\ pc'[w] = "save_module"
                /\ result'[w].status = "failed"
                /\ FromFault(result'[w])
                /\ results'[w][module_name(w)] = result'[w]
          /\ (SaveModuleStep(w) /\ how[w] = "fault") =>
                /\ ledger'[event_id[w]][module_name(w)].status = "failed"
                /\ ledger'[event_id[w]][module_name(w)].detail = result[w].detail
                /\ FromFault(ledger'[event_id[w]][module_name(w)])
                /\ results'[w][module_name(w)] = ledger'[event_id[w]][module_name(w)]
          /\ (SaveStateStep(w) /\ \E m \in DOMAIN results[w] : FromFault(results[w][m])) =>
                /\ ret'[w].results = results[w]
                /\ workflow_state'[event_id[w]].module_results = results[w]
                /\ workflow_state'[event_id[w]].overall_status # "success"
                /\ \A m \in DOMAIN results[w] :
                      FromFault(results[w][m]) => results[w][m].status = "failed"]_vars

\* A run has returned; the handler of one of its steps raised, the step's
\* record is failed with the exception's message, and the run record is
\* partial.
C24_Witness ==
    \E w \in Workers : \E m \in DOMAIN ret[w].results :
        /\ pc[w] = "returned"
        /\ FromFault(ledger[event_id[w]][m])
        /\ ledger[event_id[w]][m].status = "failed"
        /\ ledger[event_id[w]][m] = ret[w].results[m]
        /\ workflow_state[event_id[w]].overall_status = "partial"

----------------------------------------------------------------------------
\* C25: in a run with force = False, a step whose record is failed or
\* skipped, or that has no record, is evaluated again when it is reached:
\* its handler is invoked, or, if it has none, it is skipped again; and
\* the save that follows puts the new result in place of the record.
C25_OnlySuccessSticky ==
    [][\A w \in Workers :
          /\ (/\ pc[w] = "run_module"
              /\ pc'[w] # "run_module"
              /\ ~force[w]
              /\ ledger[event_id[w]][module_name(w)].status \in {"none", "failed", "skipped"}) =>
                /\ pc'[w] = "save_module"
                /\ how'[w] # "reused"
                /\ result'[w].timestamp = clock
                /\ module_name(w) \in RegisteredModules =>
                      /\ invoked'[w] = Append(invoked[w], module_name(w))
                      /\ result'[w].status \in {"success", "failed"}
                /\ module_name(w) \notin RegisteredModules =>
                      /\ invoked'[w] = invoked[w]
                      /\ result'[w].status = "skipped"
          /\ (SaveModuleStep(w) /\ ~force[w] /\ how[w] # "reused") =>
                /\ ledger'[event_id[w]][module_name(w)] = [result[w] EXCEPT !.saved_at = clock]
                /\ results'[w][module_name(w)] = ledger'[event_id[w]][module_name(w)]]_vars

\* A run with force = False has finished its loop: subtitles, failed in the
\* run before, had its handler invoked and is success in the ledger, and
\* custom_step, skipped in the run before, is skipped again with a new
\* record.
C25_Witness ==
    \E w \in Workers :
        /\ pc[w] = "save_state"
        /\ ~force[w]
        /\ {"subtitles", "custom_step"} \subseteq DOMAIN workflow_state[event_id[w]].module_results
        /\ workflow_state[event_id[w]].module_results["subtitles"].status = "failed"
        /\ workflow_state[event_id[w]].module_results["custom_step"].status = "skipped"
        /\ {"subtitles", "custom_step"} \subseteq DOMAIN results[w]
        /\ \E k \in 1..Len(invoked[w]) : invoked[w][k] = "subtitles"
        /\ ledger[event_id[w]]["subtitles"].status = "success"
        /\ ledger[event_id[w]]["custom_step"].status = "skipped"
        /\ ledger[event_id[w]]["custom_step"]
              # workflow_state[event_id[w]].module_results["custom_step"]

----------------------------------------------------------------------------
\* C26: a result with status skipped is only ever that of a step name with
\* no handler; the result of a step with a handler is success or failed,
\* in the results of a run and in the ledger; and the result a run takes
\* over from the ledger under the skip rule has status success.
C26_SkippedOnlyUnknown ==
    /\ \A w \in Workers : \A m \in DOMAIN results[w] :
          /\ results[w][m].status = "skipped" => m \notin RegisteredModules
          /\ m \in RegisteredModules => results[w][m].status \in {"success", "failed"}
    /\ \A e \in EventIds : \A m \in ModuleNames :
          ledger[e][m] # None =>
              /\ ledger[e][m].status = "skipped" => m \notin RegisteredModules
              /\ m \in RegisteredModules => ledger[e][m].status \in {"success", "failed"}
    /\ \A w \in Workers :
          (pc[w] = "save_module" /\ how[w] = "reused") =>
              /\ result[w].status = "success"
              /\ results[w][module_name(w)].status = "success"

\* A run has skipped custom_step, which has no handler, and has then taken
\* over the success record of a registered step.
C26_Witness ==
    \E w \in Workers :
        /\ pc[w] = "save_module"
        /\ how[w] = "reused"
        /\ module_name(w) \in RegisteredModules
        /\ "custom_step" \in DOMAIN results[w]
        /\ results[w]["custom_step"].status = "skipped"
        /\ ledger[event_id[w]]["custom_step"].status = "skipped"

----------------------------------------------------------------------------
\* The run record of the event of w is that of a run in which every step
\* enabled in the configuration of w succeeded.
LastRunAllSuccess(w) ==
    LET last == workflow_state[event_id[w]] IN
    /\ last.overall_status = "success"
    /\ DOMAIN last.module_results = EnabledSet(w)
    /\ \A m \in EnabledSet(w) : last.module_results[m].status = "success"

\* C27: a run with force = False that follows a run of the same
\* configuration in which every enabled step succeeded invokes no handler,
\* and the run record it writes has the same status for every step and the
\* same aggregate status, success.
C27_RerunNoOp ==
    [][\A w \in Workers :
          (SaveStateStep(w) /\ ~force[w] /\ LastRunAllSuccess(w)) =>
              /\ invoked[w] = <<>>
              /\ handler_args[w] = <<>>
              /\ DOMAIN workflow_state'[event_id[w]].module_results = EnabledSet(w)
              /\ \A m \in EnabledSet(w) :
                    workflow_state'[event_id[w]].module_results[m].status
                        = workflow_state[event_id[w]].module_results[m].status
              /\ workflow_state'[event_id[w]].overall_status = "success"
              /\ \A m \in EnabledSet(w) : ret'[w].results[m].status = "success"]_vars

\* A run with force = False of two enabled steps has returned after a run
\* in which both succeeded: it invoked no handler and the run record is
\* success.
C27_Witness ==
    \E w \in Workers :
        /\ pc[w] = "returned"
        /\ ~force[w]
        /\ invoked[w] = <<>>
        /\ Cardinality(EnabledSet(w)) = 2
        /\ LastRunAllSuccess(w)
        /\ \A m \in EnabledSet(w) : how[w] = "reused" /\ ret[w].results[m].status = "success"

----------------------------------------------------------------------------
\* C28: when save_module_result raises for a step whose handler returned
\* success, the results of the run have the step as failed and the step's
\* record stays as it was, none or an older one; and a run with
\* force = False that reaches a step with a handler invokes the handler
\* unless the step's record is a success.
C28_LostSuccess ==
    [][\A w \in Workers :
          /\ (/\ SaveModuleStep(w)
              /\ event_id[w] \notin event_dir
              /\ how[w] = "handler"
              /\ result[w].status = "success") =>
                /\ results'[w][module_name(w)].status = "failed"
                /\ results'[w][module_name(w)].detail[1] = "error"
                /\ ledger'[event_id[w]][module_name(w)] = ledger[event_id[w]][module_name(w)]
                /\ ledger'[event_id[w]][module_name(w)] # result[w]
                /\ pc'[w] \in {"run_module", "save_state"}
          /\ (RunModuleStep(w) /\ ~force[w] /\ module_name(w) \in RegisteredModules) =>
                (invoked'[w] = Append(invoked[w], module_name(w))
                    <=> ledger[event_id[w]][module_name(w)].status # "success")]_vars

\* A forced run has its first step, subtitles, as failed in its results
\* after the handler returned success and the save raised; the ledger still
\* has the success record of an earlier run.
C28_Witness ==
    \E w \in Workers :
        /\ force[w]
        /\ idx[w] = 2
        /\ how[w] = "handler"
        /\ result[w].status = "success"
        /\ results[w]["subtitles"] = save_failed
        /\ ledger[event_id[w]]["subtitles"].status = "success"
        /\ ledger[event_id[w]]["subtitles"].timestamp < result[w].timestamp

----------------------------------------------------------------------------
\* The 'status' list_events gives event e: state['overall_status'] if
\* get_workflow_state returns a record, 'pending' if it returns None; when
\* json.load raises in get_workflow_state the request fails.
list_events_status(e) ==
    IF workflow_state[e] = NoState THEN "pending"
    ELSE IF workflow_state[e] = TornState THEN "request failed"
    ELSE workflow_state[e].overall_status

\* C29: the status reported for an event is pending exactly while the
\* event has no run record, and otherwise the aggregate status of the run
\* record last written; it changes only when a run of the event writes its
\* run record, to the aggregate of that run's results, and never with a
\* step record or with the death of a run.
C29_ReportedStatus ==
    [][\A e \in Events :
          /\ list_events_status(e) = "pending" <=> workflow_state[e] = NoState
          /\ workflow_state[e] # NoState =>
                /\ list_events_status(e) \in {"success", "partial", "failed"}
                /\ list_events_status(e) = AggregateOf(workflow_state[e].module_results)
          /\ list_events_status(e)' # list_events_status(e) =>
                \E w \in Workers :
                    /\ SaveStateStep(w)
                    /\ event_id[w] = e
                    /\ list_events_status(e)' = AggregateOf(results[w])]_vars

----------------------------------------------------------------------------
\* C30: a run does not touch the record of a step that is disabled in its
\* configuration: every step it reads, runs or saves is an enabled one,
\* a step record changes only in the save of a run in which the step is
\* enabled, and the run record and its aggregate are made of the enabled
\* steps alone, whatever records disabled steps have.
C30_DisabledUntouched ==
    [][/\ \A w \in Workers :
            /\ (RunModuleStep(w) \/ SaveModuleStep(w)) => module_name(w) \in EnabledSet(w)
            /\ (MidRun(w) /\ pc'[w] # pc[w]) =>
                  \A m \in ModuleNames \ EnabledSet(w) :
                      ledger'[event_id[w]][m] = ledger[event_id[w]][m]
            /\ SaveStateStep(w) =>
                  /\ DOMAIN workflow_state'[event_id[w]].module_results
                        \cap (ModuleNames \ EnabledSet(w)) = {}
                  /\ workflow_state'[event_id[w]].overall_status
                        = AggregateOf([m \in EnabledSet(w) |-> results[w][m]])
       /\ \A e \in Events, m \in ModuleNames :
            ledger'[e][m] # ledger[e][m] =>
                \E w \in Workers :
                    /\ SaveModuleStep(w)
                    /\ event_id[w] = e
                    /\ module_name(w) = m
                    /\ m \in EnabledSet(w)]_vars

\* A run has returned with a step disabled that an earlier run left a
\* success record for: its enabled steps failed, the run record is failed
\* and does not have the disabled step, and the record is still there.
C30_Witness ==
    \E w \in Workers : \E m \in ModuleNames \ EnabledSet(w) :
        /\ pc[w] = "returned"
        /\ EnabledSet(w) # {}
        /\ ledger[event_id[w]][m].status = "success"
        /\ m \notin DOMAIN workflow_state[event_id[w]].module_results
        /\ workflow_state[event_id[w]].overall_status = "failed"
        /\ invoked[w] # <<>>

====
